---- MODULE Spec2Model ----
(***************************************************************************)
(* The linkedql item registry (query/linkedql/registry.go): Register fills *)
(* the two process-wide maps typeByName and nameByType, Unmarshal decodes  *)
(* a JSON-LD flavoured object into a registered struct by walking its      *)
(* fields, and parseValue turns one decoded JSON value into a quad.Value.  *)
(*                                                                         *)
(* JSON text is modelled by its parsed form (a "wire" value), Go values by *)
(* records tagged with their dynamic type.  Numbers are non-negative with  *)
(* at most six fractional digits: n + micro / 10^6.                        *)
(***************************************************************************)
EXTENDS Integers, Sequences, FiniteSets, TLC

VARIABLES typeByName, nameByType, firstCall, dirty, pc, op, input, pending, stack, result

vars == <<typeByName, nameByType, firstCall, dirty, pc, op, input, pending, stack, result>>

(***************************************************************************)
(* Wire values: the JSON documents a []byte / json.RawMessage can hold.    *)
(***************************************************************************)
WBad == [k |-> "bad"]
WNull == [k |-> "null"]
WBool(b) == [k |-> "bool", v |-> b]
WNum(n, micro) == [k |-> "num", n |-> n, micro |-> micro]
WInt(n) == WNum(n, 0)
WStr(s) == [k |-> "str", v |-> s]
WArr(s) == [k |-> "arr", v |-> s]
WObj(m) == [k |-> "obj", v |-> m]
\* The empty JSON object {}.
WEmptyObj == WObj([x \in {} |-> WNull])

(***************************************************************************)
(* Go values.                                                              *)
(***************************************************************************)
GoNil == [g |-> "nil"]
GoStr(s) == [g |-> "string", v |-> s]
GoInt(n) == [g |-> "int", v |-> n]
GoInt64(n) == [g |-> "int64", v |-> n]
GoFloat(n, micro) == [g |-> "float64", n |-> n, micro |-> micro]
GoBool(b) == [g |-> "bool", v |-> b]
GoSlice(s) == [g |-> "slice", v |-> s]
GoMap(m) == [g |-> "map", v |-> m]
GoRaw(w) == [g |-> "json.RawMessage", v |-> w]
GoItem(tp, f) == [g |-> "item", tp |-> tp, f |-> f]

QString(s) == [g |-> "quad.String", v |-> s]
QTyped(s, t) == [g |-> "quad.TypedString", v |-> s, t |-> t]
QLang(s, l) == [g |-> "quad.LangString", v |-> s, lang |-> l]
QIRI(s) == [g |-> "quad.IRI", v |-> s]
QBNode(s) == [g |-> "quad.BNode", v |-> s]

Ok(v) == [ok |-> TRUE, v |-> v]
Err(e, arg) == [ok |-> FALSE, e |-> e, arg |-> arg]
\* An error of encoding/json; arg names the json.Unmarshal call that failed.
JsonErr(site) == Err("json", site)
\* fmt.Errorf("unsupported item: %q", typ)
UnsupportedErr(typ) == Err("unsupported", typ)
\* fmt.Errorf("cannot parse JSON-LD value: %#v", a)
ParseErr == Err("parse", "")

xsd == "http://www.w3.org/2001/XMLSchema#"
xsdInt == xsd \o "integer"
xsdFloat == xsd \o "float"
xsdBool == xsd \o "boolean"

(***************************************************************************)
(* Text helpers.                                                           *)
(***************************************************************************)
Digits == <<"0", "1", "2", "3", "4", "5", "6", "7", "8", "9">>

RECURSIVE Itoa(_)
Itoa(n) == IF n < 10 THEN Digits[n + 1] ELSE Itoa(n \div 10) \o Digits[(n % 10) + 1]

RECURSIVE ZeroPad(_, _)
ZeroPad(s, width) == IF Len(s) >= width THEN s ELSE ZeroPad("0" \o s, width)

\* fmt.Sprintf("%f", a): fixed notation with six fractional digits.
SprintfF(a) == Itoa(a.n) \o "." \o ZeroPad(Itoa(a.micro), 6)

\* fmt.Sprintf("%t", a)
SprintfT(a) == IF a.v THEN "true" ELSE "false"

\* The characters U+0020 .. U+005F and U+0061 .. U+007E, in order.
AsciiLow == " !\"#$%&'()*+,-./0123456789:;<=>?@ABCDEFGHIJKLMNOPQRSTUVWXYZ[\\]^_"
AsciiHigh == "abcdefghijklmnopqrstuvwxyz{|}~"

\* The rune string(int64) encodes: n itself when n is a Unicode scalar value,
\* else U+FFFD.
RuneOf(n) ==
    IF n < 0 \/ n > 1114111 \/ (n >= 55296 /\ n <= 57343) THEN 65533 ELSE n

\* Go's string(int64): the one-rune text of the code point, not its decimal
\* form.  A character a string of this module can hold is that string; any
\* other text is written as the sequence of its code points.
RuneString(n) ==
    IF n >= 32 /\ n <= 95 THEN SubSeq(AsciiLow, n - 31, n - 31)
    ELSE IF n >= 97 /\ n <= 126 THEN SubSeq(AsciiHigh, n - 96, n - 96)
    ELSE << RuneOf(n) >>

HasPrefix(s, p) == Len(s) >= Len(p) /\ SubSeq(s, 1, Len(p)) = p

\* strings.SplitN(s, ",", 2)[0]
RECURSIVE BeforeComma(_, _)
BeforeComma(s, i) ==
    IF i > Len(s) THEN s
    ELSE IF SubSeq(s, i, i) = "," THEN SubSeq(s, 1, i - 1)
    ELSE BeforeComma(s, i + 1)

SplitTag(tag) == BeforeComma(tag, 1)

(***************************************************************************)
(* encoding/json as the code uses it.                                      *)
(***************************************************************************)
\* json.Unmarshal into an interface{}: the generic Go form of a document.
RECURSIVE DecodeAny(_)
DecodeAny(w) ==
    CASE w.k = "null" -> GoNil
      [] w.k = "bool" -> GoBool(w.v)
      [] w.k = "num" -> GoFloat(w.n, w.micro)
      [] w.k = "str" -> GoStr(w.v)
      [] w.k = "arr" -> GoSlice([i \in 1..Len(w.v) |-> DecodeAny(w.v[i])])
      [] w.k = "obj" -> GoMap([key \in DOMAIN w.v |-> DecodeAny(w.v[key])])

\* json.Unmarshal(v, &a) with a []interface{}: null leaves a nil.
DecodeAnySlice(w) ==
    CASE w.k = "arr" -> Ok(DecodeAny(w))
      [] w.k = "null" -> Ok(GoNil)
      [] OTHER -> JsonErr("[]interface{}")

\* The error of the array decoding dropped: whatever is no array reads as nil.
DecodeRawSliceLenient(w) ==
    CASE w.k = "arr" -> Ok(GoSlice(w.v))
      [] OTHER -> Ok(GoNil)

\* json.Unmarshal(v, &arr) with arr []json.RawMessage: null leaves arr nil.
DecodeRawSlice(w) ==
    CASE w.k = "arr" -> Ok(GoSlice(w.v))
      [] w.k = "null" -> Ok(GoNil)
      [] OTHER -> JsonErr("[]json.RawMessage")

\* json.Unmarshal(data, &m) with m map[string]json.RawMessage.
DecodeRawMap(w) ==
    CASE w.k = "obj" -> Ok(w.v)
      [] w.k = "null" -> Ok([x \in {} |-> WNull])
      [] OTHER -> JsonErr("map[string]json.RawMessage")

\* json.Unmarshal(m["@type"], &typ) with typ string: a missing key is the
\* empty input, null leaves typ "".
DecodeTypeName(m) ==
    IF "@type" \notin DOMAIN m THEN JsonErr("@type")
    ELSE CASE m["@type"].k = "str" -> Ok(m["@type"].v)
           [] m["@type"].k = "null" -> Ok("")
           [] OTHER -> JsonErr("@type")

\* json.Unmarshal(v, fv.Addr().Interface()) for the plain field types of the
\* registered structs; cur is the field's value before the call.
DecodeStd(goType, w, cur) ==
    CASE w.k = "null" -> Ok(cur)
      [] goType = "string" /\ w.k = "str" -> Ok(GoStr(w.v))
      [] goType = "int" /\ w.k = "num" /\ w.micro = 0 -> Ok(GoInt(w.n))
      [] goType = "[]string" /\ w.k = "arr"
           /\ \A i \in 1..Len(w.v) : w.v[i].k \in {"str", "null"} ->
           Ok(GoSlice([i \in 1..Len(w.v) |->
                          IF w.v[i].k = "str" THEN w.v[i].v ELSE ""]))
      [] OTHER -> JsonErr(goType)

(***************************************************************************)
(* parseValue                                                              *)
(***************************************************************************)
IsStringAt(m, key) == key \in DOMAIN m /\ m[key].g = "string"

parseValue(a) ==
    CASE a.g = "string" -> Ok(QString(a.v))
      [] a.g = "int64" -> Ok(QTyped(RuneString(a.v), xsdInt))
      [] a.g = "float64" -> Ok(QTyped(SprintfF(a), xsdFloat))
      [] a.g = "bool" -> Ok(QTyped(SprintfT(a), xsdBool))
      [] a.g = "map" ->
           IF IsStringAt(a.v, "@id")
           THEN IF HasPrefix(a.v["@id"].v, "_:")
                THEN Ok(QBNode(SubSeq(a.v["@id"].v, 3, Len(a.v["@id"].v))))
                ELSE Ok(QIRI(a.v["@id"].v))
           ELSE IF IsStringAt(a.v, "@value") /\ IsStringAt(a.v, "@language")
           THEN Ok(QLang("value", a.v["@language"].v))
           ELSE IF IsStringAt(a.v, "@value") /\ IsStringAt(a.v, "@type")
           THEN Ok(QTyped(a.v["@value"].v, a.v["@type"].v))
           ELSE ParseErr
      [] OTHER -> ParseErr

(***************************************************************************)
(* The registrants: Go types that implement RegistryItem.  Foo, Bar, Baz   *)
(* and Anon are structs, Prim is a named string type.  Baz reports the     *)
(* same Type() as Foo, Prim the same as Bar, Anon reports the empty IRI.   *)
(***************************************************************************)
GoTypes == {"Foo", "Bar", "Baz", "Anon", "Prim"}

\* reflect.Type.Kind() of the type (after Elem() for a pointer).
KindOf(tp) == IF tp = "Prim" THEN "string" ELSE "struct"

\* typ.Type(): the IRI every value of the type reports.
TypeName(tp) ==
    CASE tp = "Foo" -> "Foo"
      [] tp = "Baz" -> "Foo"
      [] tp = "Bar" -> "Bar"
      [] tp = "Prim" -> "Bar"
      [] tp = "Anon" -> ""

FieldSpec(name, tag, type) == [name |-> name, tag |-> tag, type |-> type]

\* tp.Field(i) for i = 1 .. tp.NumField(), with the json struct tag.
StructFields(tp) ==
    CASE tp = "Foo" -> << FieldSpec("Name", "name", "string"),
                          FieldSpec("Val", "val", "quad.Value"),
                          FieldSpec("Vals", "vals,omitempty", "[]quad.Value"),
                          FieldSpec("Child", "child", "RegistryItem"),
                          FieldSpec("Children", "children", "[]RegistryItem"),
                          FieldSpec("Tags", "tags", "[]string"),
                          FieldSpec("Hidden", "-", "string") >>
      [] tp = "Bar" -> << FieldSpec("X", "", "int") >>
      [] tp = "Baz" -> << FieldSpec("Name", "name,omitempty", "string") >>
      [] tp = "Anon" -> << FieldSpec("Val", "val", "quad.Value") >>
      [] OTHER -> << >>

NumField(tp) == Len(StructFields(tp))

ZeroValue(goType) ==
    CASE goType = "string" -> GoStr("")
      [] goType = "int" -> GoInt(0)
      [] OTHER -> GoNil

\* reflect.New(tp).Elem(): every field at its zero value.
ZeroItem(tp) ==
    GoItem(tp, [n \in {StructFields(tp)[i].name : i \in 1..NumField(tp)} |->
                   ZeroValue((CHOOSE f \in {StructFields(tp)[i] : i \in 1..NumField(tp)} :
                                 f.name = n).type)])

\* The Type() of a decoded item.
ItemType(item) == TypeName(item.tp)

(***************************************************************************)
(* Unmarshal, field by field.                                              *)
(***************************************************************************)
\* The wire key of a field: its json tag up to the first comma, else its name.
WireKey(f) == IF SplitTag(f.tag) # "" THEN SplitTag(f.tag) ELSE f.name

\* Whether the loop passes over the field: tag "-", or no entry in m.
Skipped(f, m) == SplitTag(f.tag) = "-" \/ WireKey(f) \notin DOMAIN m

\* The branch the two switches take for a field type.
FieldKind(goType) ==
    CASE goType = "quad.Value" -> "Value"
      [] goType = "[]quad.Value" -> "ValueSequence"
      [] goType = "RegistryItem" -> "Polymorphic"
      [] goType = "[]RegistryItem" -> "PolymorphicSequence"
      [] OTHER -> "Scalar"

\* case quadValue: the raw message itself is handed to parseValue.
DecodeValueField(v) == parseValue(GoRaw(v))

\* The loop over a: values stays nil until the first append.
RECURSIVE ParseValues(_, _, _)
ParseValues(a, i, values) ==
    IF i > Len(a)
    THEN Ok(IF values = << >> THEN GoNil ELSE GoSlice(values))
    ELSE IF parseValue(a[i]).ok
         THEN ParseValues(a, i + 1, Append(values, parseValue(a[i]).v))
         ELSE parseValue(a[i])

\* case quadSliceValue
DecodeValueSequenceField(v) ==
    IF ~DecodeAnySlice(v).ok THEN DecodeAnySlice(v)
    ELSE IF DecodeAnySlice(v).v = GoNil THEN Ok(GoNil)
    ELSE ParseValues(DecodeAnySlice(v).v.v, 1, << >>)

\* The branches of the loop body that do not call Unmarshal again.
DecodeLeafField(f, v, cur) ==
    CASE FieldKind(f.type) = "Value" -> DecodeValueField(v)
      [] FieldKind(f.type) = "ValueSequence" -> DecodeValueSequenceField(v)
      [] OTHER -> DecodeStd(f.type, v, cur)

\* delete(m, "@type")
DeleteType(m) == [key \in DOMAIN m \ {"@type"} |-> m[key]]

\* Lines 39-51: the object, its "@type", the registry lookup.  Yields the
\* struct type and the remaining raw fields, or the error returned.
DecodeHeader(reg, data) ==
    IF data.k = "bad" THEN JsonErr("map[string]json.RawMessage")
    ELSE IF ~DecodeRawMap(data).ok THEN DecodeRawMap(data)
    ELSE IF ~DecodeTypeName(DecodeRawMap(data).v).ok
         THEN DecodeTypeName(DecodeRawMap(data).v)
    ELSE IF DecodeTypeName(DecodeRawMap(data).v).v \notin DOMAIN reg
         THEN UnsupportedErr(DecodeTypeName(DecodeRawMap(data).v).v)
    ELSE Ok([tp |-> reg[DecodeTypeName(DecodeRawMap(data).v).v],
             m |-> DeleteType(DecodeRawMap(data).v)])

RECURSIVE Unmarshal(_, _)
RECURSIVE UnmarshalFields(_, _, _, _)
RECURSIVE UnmarshalItems(_, _, _, _)

\* Unmarshal as one call: reg is typeByName as the call finds it.
Unmarshal(reg, data) ==
    IF ~DecodeHeader(reg, data).ok THEN DecodeHeader(reg, data)
    ELSE UnmarshalFields(reg, DecodeHeader(reg, data).v.m, 1,
                         ZeroItem(DecodeHeader(reg, data).v.tp))

\* The loop over arr: va is filled in array order, the first error returns.
UnmarshalItems(reg, arr, i, va) ==
    IF i > Len(arr) THEN Ok(GoSlice(va))
    ELSE LET s == Unmarshal(reg, arr[i])
         IN  IF s.ok THEN UnmarshalItems(reg, arr, i + 1, Append(va, s.v)) ELSE s

\* The loop over the struct fields from field i on.
UnmarshalFields(reg, m, i, item) ==
    IF i > NumField(item.tp) THEN Ok(item)
    ELSE LET f == StructFields(item.tp)[i]
             v == m[WireKey(f)]
             r == CASE FieldKind(f.type) = "Polymorphic" -> Unmarshal(reg, v)
                    [] FieldKind(f.type) = "PolymorphicSequence" ->
                         IF ~DecodeRawSlice(v).ok THEN DecodeRawSlice(v)
                         ELSE IF DecodeRawSlice(v).v = GoNil THEN Ok(item.f[f.name])
                         ELSE UnmarshalItems(reg, DecodeRawSlice(v).v.v, 1, << >>)
                    [] OTHER -> DecodeLeafField(f, v, item.f[f.name])
         IN  IF Skipped(f, m) THEN UnmarshalFields(reg, m, i + 1, item)
             ELSE IF r.ok
                  THEN UnmarshalFields(reg, m, i + 1,
                                       [item EXCEPT !.f[f.name] = r.v])
                  ELSE r

(***************************************************************************)
(* Register                                                                *)
(***************************************************************************)
\* A registrant: a value of Go type tp, or a pointer to one.
Registrant(tp, ptr) == [tp |-> tp, ptr |-> ptr]

\* reflect.TypeOf(typ)
ReflectTypeOf(typ) == IF typ.ptr THEN "*" \o typ.tp ELSE typ.tp

\* tp.Kind()
ReflectKind(tp) == IF HasPrefix(tp, "*") THEN "ptr" ELSE KindOf(tp)

\* tp.Elem() of a pointer type
ReflectElem(tp) == SubSeq(tp, 2, Len(tp))

\* Lines 19-22: the type the registry stores for a registrant.
RegisteredType(typ) ==
    IF ReflectKind(ReflectTypeOf(typ)) = "ptr"
    THEN ReflectElem(ReflectTypeOf(typ))
    ELSE ReflectTypeOf(typ)

\* string(typ.Type())
RegistrantName(typ) == TypeName(typ.tp)

Panic(msg) == Err("panic", msg)

\* m[k] = v on a Go map
MapSet(m, k, v) == [x \in DOMAIN m \cup {k} |-> IF x = k THEN v ELSE m[x]]

\* Lines 19-29 without the test of line 27.
RegisterCheckNoDuplicateTest(byName, typ) ==
    IF ReflectKind(RegisteredType(typ)) # "struct"
    THEN Panic("only structs are allowed")
    ELSE Ok(GoNil)

\* Lines 19-29: the panic the call ends with, or Ok when it goes on to write.
RegisterCheck(byName, typ) ==
    IF ReflectKind(RegisteredType(typ)) # "struct"
    THEN Panic("only structs are allowed")
    ELSE IF RegistrantName(typ) \in DOMAIN byName
    THEN Panic("this name was already registered")
    ELSE Ok(GoNil)

\* What a call Register(typ) that runs alone does to the two maps, and how
\* it ends.
RegisterEffect(byName, byType, typ) ==
    IF RegisterCheck(byName, typ).ok
    THEN [byName |-> MapSet(byName, RegistrantName(typ), RegisteredType(typ)),
          byType |-> MapSet(byType, RegisteredType(typ), RegistrantName(typ)),
          out |-> Ok(GoNil)]
    ELSE [byName |-> byName, byType |-> byType, out |-> RegisterCheck(byName, typ)]

(***************************************************************************)
(* The callers (goroutines).  Each caller is idle, inside a call of        *)
(* Register ("reg19": before the test of line 27, "reg30" and "reg31":     *)
(* before the write of that line), inside a call of Unmarshal ("run") or   *)
(* holds what its last call returned ("returned").  Nothing orders the     *)
(* calls of different callers: the maps carry no lock.  A call of          *)
(* Unmarshal advances one object header or one struct field at a time;     *)
(* stack holds the nested calls, pending the raw message the next call     *)
(* starts from.  When the runtime detects two unsynchronised accesses to a *)
(* map it stops the process ("fatal").                                     *)
(* firstCall remembers, per name, the type of the first call of Register   *)
(* that computed that name; dirty[t] tells that a call of Register was     *)
(* writing the maps at some point of the call of Unmarshal t is in.        *)
(***************************************************************************)
WNone == [k |-> "none"]
NoResult == Err("", "")
NoInput == [k |-> "none"]

Frame(tp, m) == [tp |-> tp, m |-> m, i |-> 1, item |-> ZeroItem(tp), va |-> << >>]

Top(s) == s[Len(s)]
Pop(s) == SubSeq(s, 1, Len(s) - 1)
SetTop(s, fr) == [s EXCEPT ![Len(s)] = fr]

\* The field the frame is at.
CurField(fr) == StructFields(fr.tp)[fr.i]

\* Caller t is between the test of line 27 and the end of Register.
Writing(t) == pc[t] \in {"reg30", "reg31"}

\* The caller calls Register(typ).
Register(t, typ) ==
    /\ pc[t] = "idle"
    /\ pc' = [pc EXCEPT ![t] = "reg19"]
    /\ op' = [op EXCEPT ![t] = "Register"]
    /\ input' = [input EXCEPT ![t] = typ]
    /\ UNCHANGED <<typeByName, nameByType, firstCall, dirty, pending, stack, result>>

\* Lines 19-29: the struct check, the name, the test of typeByName.
RegisterTest(t) ==
    /\ pc[t] = "reg19"
    /\ IF RegisterCheck(typeByName, input[t]).ok
       THEN /\ pc' = [pc EXCEPT ![t] = "reg30"]
            /\ dirty' = [u \in DOMAIN dirty |-> dirty[u] \/ pc[u] = "run"]
            /\ UNCHANGED result
       ELSE /\ pc' = [pc EXCEPT ![t] = "returned"]
            /\ result' = [result EXCEPT ![t] = RegisterCheck(typeByName, input[t])]
            /\ UNCHANGED dirty
    /\ firstCall' = IF ReflectKind(RegisteredType(input[t])) = "struct"
                       /\ RegistrantName(input[t]) \notin DOMAIN firstCall
                    THEN MapSet(firstCall, RegistrantName(input[t]),
                                RegisteredType(input[t]))
                    ELSE firstCall
    /\ UNCHANGED <<typeByName, nameByType, op, input, pending, stack>>

\* Line 30: typeByName[name] = tp
RegisterSetTypeByName(t) ==
    /\ pc[t] = "reg30"
    /\ typeByName' = MapSet(typeByName, RegistrantName(input[t]), RegisteredType(input[t]))
    /\ pc' = [pc EXCEPT ![t] = "reg31"]
    /\ UNCHANGED <<nameByType, firstCall, dirty, op, input, pending, stack, result>>

\* Line 31: nameByType[tp] = name, and the call returns.
RegisterSetNameByType(t) ==
    /\ pc[t] = "reg31"
    /\ nameByType' = MapSet(nameByType, RegisteredType(input[t]), RegistrantName(input[t]))
    /\ pc' = [pc EXCEPT ![t] = "returned"]
    /\ result' = [result EXCEPT ![t] = Ok(GoNil)]
    /\ UNCHANGED <<typeByName, firstCall, dirty, op, input, pending, stack>>

\* Lines 39-47 of a call on data go through to the lookup of line 48: the
\* returns of lines 41 and 45 are not taken.
ReachesLookup(data) ==
    /\ DecodeRawMap(data).ok
    /\ DecodeTypeName(DecodeRawMap(data).v).ok

\* Caller t is about to read or write typeByName.
AtTypeByName(t) ==
    \/ pc[t] = "reg30"
    \/ pc[t] = "reg19" /\ ReflectKind(RegisteredType(input[t])) = "struct"
    \/ pc[t] = "run" /\ pending[t] # WNone /\ ReachesLookup(pending[t])

\* Two callers are at a map at once and one of them writes it: the runtime
\* may stop the process with "concurrent map read and map write" or
\* "concurrent map writes".  (When it does not, either order of the two
\* accesses is a step of its own.)
Fatal ==
    /\ \E u, t \in DOMAIN pc :
          /\ u # t
          /\ \/ pc[u] = "reg30" /\ AtTypeByName(t)
             \/ pc[u] = "reg31" /\ pc[t] = "reg31"
    /\ pc' = [t \in DOMAIN pc |-> "fatal"]
    /\ UNCHANGED <<typeByName, nameByType, firstCall, dirty, op, input, pending,
                   stack, result>>

\* The caller calls Unmarshal(data).
CallUnmarshal(t, data) ==
    /\ pc[t] = "idle"
    /\ pc' = [pc EXCEPT ![t] = "run"]
    /\ op' = [op EXCEPT ![t] = "Unmarshal"]
    /\ input' = [input EXCEPT ![t] = data]
    /\ pending' = [pending EXCEPT ![t] = data]
    /\ dirty' = [dirty EXCEPT ![t] = \E u \in DOMAIN pc : Writing(u)]
    /\ UNCHANGED <<typeByName, nameByType, firstCall, stack, result>>

\* A nested failure reported under the outermost call's own type name.
FailRenamed(t, err) ==
    /\ pc' = [pc EXCEPT ![t] = "returned"]
    /\ result' = [result EXCEPT ![t] =
                     IF stack[t] # << >> /\ err.e = "unsupported"
                     THEN UnsupportedErr(TypeName(stack[t][1].tp))
                     ELSE err]
    /\ stack' = [stack EXCEPT ![t] = << >>]
    /\ pending' = [pending EXCEPT ![t] = WNone]

\* return nil, err: every enclosing call returns the same error in turn.
Fail(t, err) ==
    /\ pc' = [pc EXCEPT ![t] = "returned"]
    /\ result' = [result EXCEPT ![t] = err]
    /\ stack' = [stack EXCEPT ![t] = << >>]
    /\ pending' = [pending EXCEPT ![t] = WNone]

\* The frame on top goes on with fr.
Continue(t, fr, next) ==
    /\ stack' = [stack EXCEPT ![t] = SetTop(stack[t], fr)]
    /\ pending' = [pending EXCEPT ![t] = next]
    /\ UNCHANGED <<pc, result>>

\* A lookup that enters the name it misses (with no type) into typeByName.
EnterInserting(t) ==
    /\ pc[t] = "run"
    /\ pending[t] # WNone
    /\ LET h == DecodeHeader(typeByName, pending[t])
       IN  IF h.ok
           THEN /\ stack' = [stack EXCEPT ![t] = Append(stack[t], Frame(h.v.tp, h.v.m))]
                /\ pending' = [pending EXCEPT ![t] = WNone]
                /\ UNCHANGED <<pc, result, typeByName>>
           ELSE /\ Fail(t, h)
                /\ typeByName' = IF h.e = "unsupported"
                                 THEN MapSet(typeByName, h.arg, "")
                                 ELSE typeByName
    /\ UNCHANGED <<nameByType, firstCall, dirty, op, input>>

\* Lines 39-52 of a call (the outermost or a nested one).
Enter(t) ==
    /\ pc[t] = "run"
    /\ pending[t] # WNone
    /\ LET h == DecodeHeader(typeByName, pending[t])
       IN  IF h.ok
           THEN /\ stack' = [stack EXCEPT ![t] = Append(stack[t], Frame(h.v.tp, h.v.m))]
                /\ pending' = [pending EXCEPT ![t] = WNone]
                /\ UNCHANGED <<pc, result>>
           ELSE Fail(t, h)
    /\ UNCHANGED <<typeByName, nameByType, firstCall, dirty, op, input>>

\* One pass of the loop over the struct fields, up to the point where it
\* calls Unmarshal again or moves to the next field.
FieldStep(t) ==
    /\ pc[t] = "run"
    /\ pending[t] = WNone
    /\ stack[t] # << >>
    /\ Top(stack[t]).i <= NumField(Top(stack[t]).tp)
    /\ LET fr == Top(stack[t])
           f == CurField(fr)
           v == fr.m[WireKey(f)]
           kind == FieldKind(f.type)
           arr == DecodeRawSlice(v)
           leaf == DecodeLeafField(f, v, fr.item.f[f.name])
       IN  IF Skipped(f, fr.m)
           THEN Continue(t, [fr EXCEPT !.i = @ + 1], WNone)
           ELSE IF kind = "Polymorphic"
           THEN Continue(t, fr, v)
           ELSE IF kind = "PolymorphicSequence"
           THEN IF ~arr.ok THEN Fail(t, arr)
                ELSE IF arr.v = GoNil
                THEN Continue(t, [fr EXCEPT !.i = @ + 1], WNone)
                ELSE IF arr.v.v = << >>
                THEN Continue(t, [fr EXCEPT !.i = @ + 1,
                                            !.item.f[f.name] = GoSlice(<< >>)], WNone)
                ELSE Continue(t, fr, arr.v.v[1])
           ELSE IF leaf.ok
                THEN Continue(t, [fr EXCEPT !.i = @ + 1,
                                            !.item.f[f.name] = leaf.v], WNone)
                ELSE Fail(t, leaf)
    /\ UNCHANGED <<typeByName, nameByType, firstCall, dirty, op, input>>

\* The parent frame takes the item a nested call returned.
Resume(parent, s) ==
    IF FieldKind(CurField(parent).type) = "Polymorphic"
    THEN [fr |-> [parent EXCEPT !.i = @ + 1, !.item.f[CurField(parent).name] = s],
          next |-> WNone]
    ELSE LET arr == parent.m[WireKey(CurField(parent))].v
             va == Append(parent.va, s)
         IN  IF Len(va) < Len(arr)
             THEN [fr |-> [parent EXCEPT !.va = va], next |-> arr[Len(va) + 1]]
             ELSE [fr |-> [parent EXCEPT !.i = @ + 1, !.va = << >>,
                                         !.item.f[CurField(parent).name] = GoSlice(va)],
                   next |-> WNone]

\* Line 135: the loop is over, the call returns its item.
Finish(t) ==
    /\ pc[t] = "run"
    /\ pending[t] = WNone
    /\ stack[t] # << >>
    /\ Top(stack[t]).i > NumField(Top(stack[t]).tp)
    /\ IF Len(stack[t]) = 1
       THEN /\ pc' = [pc EXCEPT ![t] = "returned"]
            /\ result' = [result EXCEPT ![t] = Ok(Top(stack[t]).item)]
            /\ stack' = [stack EXCEPT ![t] = << >>]
            /\ UNCHANGED pending
       ELSE LET r == Resume(stack[t][Len(stack[t]) - 1], Top(stack[t]).item)
            IN  /\ stack' = [stack EXCEPT ![t] = SetTop(Pop(stack[t]), r.fr)]
                /\ pending' = [pending EXCEPT ![t] = r.next]
                /\ UNCHANGED <<pc, result>>
    /\ UNCHANGED <<typeByName, nameByType, firstCall, dirty, op, input>>

\* The caller has read what the call returned (or recovered the panic).
Return(t) ==
    /\ pc[t] = "returned"
    /\ pc' = [pc EXCEPT ![t] = "idle"]
    /\ op' = [op EXCEPT ![t] = ""]
    /\ input' = [input EXCEPT ![t] = NoInput]
    /\ result' = [result EXCEPT ![t] = NoResult]
    /\ dirty' = [dirty EXCEPT ![t] = FALSE]
    /\ UNCHANGED <<typeByName, nameByType, firstCall, pending, stack>>

(***************************************************************************)
(* The inputs the callers draw from.                                       *)
(***************************************************************************)
\* The longest JSON array in an input.
MaxArr == 2

SeqsUpTo(S, n) == UNION {[1..k -> S] : k \in 0..n}

Obj1(k1, v1) == WObj(k1 :> v1)
Obj2(k1, v1, k2, v2) == WObj(k1 :> v1 @@ k2 :> v2)

\* With(o, key, w): the object o with one more member.
With(o, key, w) == WObj(o.v @@ key :> w)

LangWire(text, lang) == Obj2("@value", WStr(text), "@language", WStr(lang))

\* Wire values offered to a quad.Value field.
ValueWires ==
    { WStr("a"), WInt(42), WNum(3, 500000), WBool(TRUE), WNull,
      Obj1("@id", WStr("_:b1")), Obj1("@id", WStr("http://example/x")),
      LangWire("hello", "en"), LangWire("bonjour", "en"),
      Obj2("@value", WStr("7"), "@type", WStr(xsdInt)),
      Obj1("@value", WStr("bare")), WEmptyObj, WArr(<< >>) }

\* Elements offered inside a []quad.Value array.
ElementWires ==
    { WStr("a"), WInt(42), Obj1("@id", WStr("_:b1")),
      LangWire("hello", "en"), LangWire("bonjour", "en"), WEmptyObj }

\* Wire values that are no JSON array.
NonArrayWires == { WNull, WStr("a"), WInt(1), WBool(TRUE), WEmptyObj }

BarWire(x) == Obj2("@type", WStr("Bar"), "X", x)
NopeWire == Obj1("@type", WStr("Nope"))
FooWire == Obj1("@type", WStr("Foo"))

\* Wire values offered to a RegistryItem field or array element.
ItemWires ==
    { BarWire(WInt(1)), BarWire(WInt(2)), NopeWire, WNull }

NestedWires ==
    ItemWires \cup
    { With(FooWire, "child", NopeWire),
      With(FooWire, "child", BarWire(WInt(1))),
      With(FooWire, "children", WArr(<< BarWire(WInt(1)), NopeWire >>)),
      BarWire(WStr("a")), WStr("a"), WEmptyObj, Obj1("@type", WNull) }

\* The members one object of type Foo can carry, one at a time.
FooMembers ==
    { <<"name", w>> : w \in { WStr("a"), WInt(1), WNull } }
    \cup { <<"val", w>> : w \in ValueWires }
    \cup { <<"vals", w>> : w \in NonArrayWires }
    \cup { <<"vals", WArr(a)>> : a \in SeqsUpTo(ElementWires, MaxArr) }
    \cup { <<"child", w>> : w \in NestedWires }
    \cup { <<"children", w>> : w \in NonArrayWires }
    \cup { <<"children", WArr(a)>> : a \in SeqsUpTo(ItemWires, MaxArr) }
    \cup { <<"tags", w>> : w \in { WArr(<< >>), WArr(<< WStr("t") >>), WNull, WStr("t") } }
    \cup { <<"Hidden", WStr("h")>>, <<"-", WStr("h")>>, <<"Name", WStr("a")>> }

\* What "@type" can hold besides the name of a registered type.
OddTypeWires ==
    { WNull, WInt(1), WBool(TRUE), WArr(<< >>), WEmptyObj, WStr("Nope"), WStr("") }

Inputs ==
    { WBad, WNull, WInt(1), WStr("a"), WArr(<< >>), WEmptyObj, FooWire,
      Obj1("X", WInt(1)), Obj1("val", WStr("a")) }
    \cup { Obj1("@type", w) : w \in OddTypeWires }
    \cup { Obj2("@type", w, "val", WStr("a")) : w \in OddTypeWires }
    \cup { BarWire(w) : w \in { WInt(1), WNum(3, 500000), WStr("a"), WNull } }
    \cup { With(FooWire, mb[1], mb[2]) : mb \in FooMembers }
    \cup { With(With(FooWire, "name", WStr("a")), mb[1], mb[2]) :
              mb \in { <<"children", WArr(<< BarWire(WInt(1)) >>)>>,
                       <<"child", NopeWire>>,
                       <<"vals", WArr(<< >>)>> } }
    \cup { With(With(FooWire, "child", NopeWire), mb[1], mb[2]) :
              mb \in { <<"name", WInt(1)>>, <<"val", WStr("a")>>,
                       <<"vals", WArr(<< WInt(42) >>)>>,
                       <<"children", WArr(<< >>)>> } }

\* The inputs of the concurrent callers.
ConcInputs ==
    { WBad, Obj1("@type", WNull), NopeWire, BarWire(WInt(1)),
      With(FooWire, "vals", WArr(<< WInt(42) >>)),
      With(FooWire, "child", With(FooWire, "child", NopeWire)),
      With(FooWire, "children", WArr(<< BarWire(WInt(1)), BarWire(WInt(2)) >>)),
      With(With(FooWire, "name", WStr("a")), "children",
           WArr(<< BarWire(WInt(1)), NopeWire >>)) }

Registrants == { Registrant(tp, ptr) : tp \in GoTypes, ptr \in BOOLEAN }

(***************************************************************************)
(* The two specifications: one caller with every input, whose calls follow *)
(* one another, and two callers whose calls of Register and Unmarshal      *)
(* interleave without any synchronisation.                                 *)
(***************************************************************************)
InitOver(T) ==
    /\ typeByName = << >>
    /\ nameByType = << >>
    /\ firstCall = << >>
    /\ dirty = [t \in T |-> FALSE]
    /\ pc = [t \in T |-> "idle"]
    /\ op = [t \in T |-> ""]
    /\ input = [t \in T |-> NoInput]
    /\ pending = [t \in T |-> WNone]
    /\ stack = [t \in T |-> << >>]
    /\ result = [t \in T |-> NoResult]

Init == InitOver({"c1"})

Next ==
    \/ \E t \in DOMAIN pc, typ \in Registrants : Register(t, typ)
    \/ \E t \in DOMAIN pc : RegisterTest(t)
    \/ \E t \in DOMAIN pc : RegisterSetTypeByName(t)
    \/ \E t \in DOMAIN pc : RegisterSetNameByType(t)
    \/ \E t \in DOMAIN pc, data \in Inputs : CallUnmarshal(t, data)
    \/ \E t \in DOMAIN pc : Enter(t)
    \/ \E t \in DOMAIN pc : FieldStep(t)
    \/ \E t \in DOMAIN pc : Finish(t)
    \/ \E t \in DOMAIN pc : Return(t)

Spec == Init /\ [][Next]_vars

InitConc == InitOver({"c1", "c2"})

NextConc ==
    \/ \E t \in DOMAIN pc, typ \in Registrants : Register(t, typ)
    \/ \E t \in DOMAIN pc : RegisterTest(t)
    \/ \E t \in DOMAIN pc : RegisterSetTypeByName(t)
    \/ \E t \in DOMAIN pc : RegisterSetNameByType(t)
    \/ \E t \in DOMAIN pc, data \in ConcInputs : CallUnmarshal(t, data)
    \/ \E t \in DOMAIN pc : Enter(t)
    \/ \E t \in DOMAIN pc : FieldStep(t)
    \/ \E t \in DOMAIN pc : Finish(t)
    \/ \E t \in DOMAIN pc : Return(t)
    \/ Fatal

SpecConc == InitConc /\ [][NextConc]_vars

(***************************************************************************)
(* Vocabulary of the properties.                                           *)
(***************************************************************************)
\* Caller t holds what a call of Unmarshal returned.
Returned(t) == pc[t] = "returned" /\ op[t] = "Unmarshal"

\* The input of caller t is a JSON object.
IsObject(w) == w.k = "obj"

\* The input is an object whose "@type" is the name of a registered type.
HasRegisteredType(reg, w) ==
    /\ IsObject(w)
    /\ "@type" \in DOMAIN w.v
    /\ w.v["@type"].k = "str"
    /\ w.v["@type"].v \in DOMAIN reg

\* The fields of the type the input names.
FieldsOfInput(reg, w) == StructFields(reg[w.v["@type"].v])

\* The fields of that type that are read from the wire and present in it.
PresentFields(reg, w) ==
    { i \in 1..Len(FieldsOfInput(reg, w)) :
         /\ SplitTag(FieldsOfInput(reg, w)[i].tag) # "-"
         /\ WireKey(FieldsOfInput(reg, w)[i]) \in DOMAIN w.v }

\* The wire value the input holds for field f.
WireOf(w, f) == w.v[WireKey(f)]

IsSequenceKind(f) == FieldKind(f.type) \in {"ValueSequence", "PolymorphicSequence"}

(***************************************************************************)
(* C3                                                                      *)
(***************************************************************************)
\* C3: when the calls of Register follow one another, every name in the
\* registry maps to the type of the first call that computed that name, and
\* a call whose name is already registered panics and leaves typeByName and
\* nameByType as they were.
C3_FirstRegistrationWins ==
    [][ /\ \A n \in DOMAIN typeByName' :
              n \in DOMAIN firstCall' /\ typeByName'[n] = firstCall'[n]
        /\ \A t \in DOMAIN pc :
              ( /\ pc[t] = "reg19"
                /\ pc'[t] # "reg19"
                /\ RegistrantName(input[t]) \in DOMAIN typeByName )
              => /\ pc'[t] = "returned"
                 /\ result'[t].ok = FALSE
                 /\ result'[t].e = "panic"
                 /\ typeByName' = typeByName
                 /\ nameByType' = nameByType ]_vars

\* A second type was offered under a registered name and was turned down.
C3_Witness ==
    \E t \in DOMAIN pc :
       /\ pc[t] = "returned"
       /\ op[t] = "Register"
       /\ result[t] = Panic("this name was already registered")
       /\ typeByName[RegistrantName(input[t])] # RegisteredType(input[t])

(***************************************************************************)
(* C10                                                                     *)
(***************************************************************************)
\* Caller t takes a step of its call of Unmarshal.
UnmarshalStep(t) ==
    /\ op'[t] = "Unmarshal"
    /\ pc'[t] \in {"run", "returned"}
    /\ <<pc[t], pending[t], stack[t]>> # <<pc'[t], pending'[t], stack'[t]>>

\* C10: no step of a call of Unmarshal changes typeByName or nameByType, and
\* when no call of Register was writing the maps during a call of Unmarshal,
\* the call returns, whatever the interleaving with other calls of
\* Unmarshal, what the same call returns when it runs alone.
C10_UnmarshalReadsOnly ==
    [][ \A t \in DOMAIN pc :
           /\ UnmarshalStep(t) => (typeByName' = typeByName /\ nameByType' = nameByType)
           /\ (UnmarshalStep(t) /\ pc'[t] = "returned" /\ ~dirty'[t])
                 => result'[t] = Unmarshal(typeByName', input'[t]) ]_vars

\* One call has returned an item while the other call is between two
\* fields of a nested object, and no call of Register ran beside them.
C10_Witness ==
    \E t, u \in DOMAIN pc :
       /\ t # u
       /\ Returned(t)
       /\ result[t].ok
       /\ ~dirty[t]
       /\ ~dirty[u]
       /\ pc[u] = "run"
       /\ Len(stack[u]) = 2

(***************************************************************************)
(* The Value Decoder as the specification words it (section 4.2), on wire  *)
(* values: the reference C1, C4, C5 and C6 compare the code with.          *)
(***************************************************************************)
IsStrMember(w, key) == key \in DOMAIN w.v /\ w.v[key].k = "str"

C4_SpecValue(w) ==
    CASE w.k = "str" -> Ok(QString(w.v))
      [] w.k = "num" /\ w.micro = 0 -> Ok(QTyped(Itoa(w.n), xsdInt))
      [] w.k = "num" /\ w.micro # 0 -> Ok(QTyped(SprintfF(w), xsdFloat))
      [] w.k = "bool" -> Ok(QTyped(IF w.v THEN "true" ELSE "false", xsdBool))
      [] w.k = "obj" ->
           IF IsStrMember(w, "@id")
           THEN IF HasPrefix(w.v["@id"].v, "_:")
                THEN Ok(QBNode(SubSeq(w.v["@id"].v, 3, Len(w.v["@id"].v))))
                ELSE Ok(QIRI(w.v["@id"].v))
           ELSE IF IsStrMember(w, "@value") /\ IsStrMember(w, "@language")
           THEN Ok(QLang(w.v["@value"].v, w.v["@language"].v))
           ELSE IF IsStrMember(w, "@value") /\ IsStrMember(w, "@type")
           THEN Ok(QTyped(w.v["@value"].v, w.v["@type"].v))
           ELSE ParseErr
      [] OTHER -> ParseErr

(***************************************************************************)
(* C1                                                                      *)
(***************************************************************************)
\* A wire value valid for a plain field of the given Go type.
C1_ValidScalar(goType, x) ==
    CASE goType = "string" -> x.k = "str"
      [] goType = "int" -> x.k = "num" /\ x.micro = 0
      [] goType = "[]string" -> x.k = "arr" /\ \A j \in 1..Len(x.v) : x.v[j].k = "str"
      [] OTHER -> FALSE

\* w is a valid encoding of a registered shape: "@type" names it, and every
\* present field holds a wire value valid for the field's kind.
RECURSIVE C1_ValidEncoding(_, _)
C1_ValidEncoding(reg, w) ==
    /\ HasRegisteredType(reg, w)
    /\ \A i \in PresentFields(reg, w) :
          LET f == FieldsOfInput(reg, w)[i]
              x == WireOf(w, f)
          IN  CASE FieldKind(f.type) = "Value" -> C4_SpecValue(x).ok
                [] FieldKind(f.type) = "ValueSequence" ->
                     x.k = "arr" /\ \A j \in 1..Len(x.v) : C4_SpecValue(x.v[j]).ok
                [] FieldKind(f.type) = "Polymorphic" -> C1_ValidEncoding(reg, x)
                [] FieldKind(f.type) = "PolymorphicSequence" ->
                     x.k = "arr" /\ \A j \in 1..Len(x.v) : C1_ValidEncoding(reg, x.v[j])
                [] OTHER -> C1_ValidScalar(f.type, x)

\* C1: Unmarshal of a valid encoding of a registered shape S returns an item
\* and no error, and the item's Type() is S's discriminator.
C1_ValidEncodingDecodes ==
    \A t \in DOMAIN pc :
       (Returned(t) /\ C1_ValidEncoding(typeByName, input[t]))
       => /\ result[t].ok
          /\ ItemType(result[t].v) = input[t].v["@type"].v

(***************************************************************************)
(* C2                                                                      *)
(***************************************************************************)
\* w starts with a string "@type".
HasTypeName(w) == IsObject(w) /\ IsStrMember(w, "@type")

\* The unregistered discriminators of w: its own, or those of the objects in
\* its Polymorphic fields and PolymorphicSequence elements.
RECURSIVE C2_Unknown(_, _)
C2_Unknown(reg, w) ==
    IF ~HasTypeName(w) THEN {}
    ELSE IF w.v["@type"].v \notin DOMAIN reg THEN {w.v["@type"].v}
    ELSE UNION { LET f == FieldsOfInput(reg, w)[i]
                     x == WireOf(w, f)
                 IN  CASE FieldKind(f.type) = "Polymorphic" -> C2_Unknown(reg, x)
                       [] FieldKind(f.type) = "PolymorphicSequence" /\ x.k = "arr" ->
                            UNION { C2_Unknown(reg, x.v[j]) : j \in 1..Len(x.v) }
                       [] OTHER -> {}
                 : i \in PresentFields(reg, w) }

\* C2 as claimed: when the input carries an unregistered discriminator, at
\* the top or nested, Unmarshal returns the unsupported-type error that
\* names it, and no item.
C2_UnknownAnywhereFails ==
    \A t \in DOMAIN pc :
       (Returned(t) /\ C2_Unknown(typeByName, input[t]) # {})
       => /\ result[t].ok = FALSE
          /\ result[t].e = "unsupported"
          /\ result[t].arg \in C2_Unknown(typeByName, input[t])

\* C2, amended: when a call of Unmarshal, the outermost or a nested one that
\* the decoding reaches, starts on an object whose "@type" is a string that
\* is no key of typeByName, the outermost call returns the unsupported-type
\* error naming that string, and no item.
C2_ReachedUnknownFails ==
    [][ \A t \in DOMAIN pc :
           ( /\ pc[t] = "run"
             /\ pending[t] # WNone
             /\ HasTypeName(pending[t])
             /\ pending[t].v["@type"].v \notin DOMAIN typeByName )
           => /\ pc'[t] = "returned"
              /\ result'[t] = UnsupportedErr(pending[t].v["@type"].v) ]_vars

\* The error of a nested object came out of a call on a registered type.
C2_Witness ==
    \E t \in DOMAIN pc :
       /\ Returned(t)
       /\ HasRegisteredType(typeByName, input[t])
       /\ result[t] = UnsupportedErr("Nope")

(***************************************************************************)
(* C4                                                                      *)
(***************************************************************************)
\* C4: a present quad.Value field receives the Value the Value Decoder
\* assigns to its wire value, and the decode fails on that field only when
\* the Value Decoder yields a parse error.  Stated for the inputs in which
\* the quad.Value field is the only field present.
C4_ValueFieldDecodes ==
    \A t \in DOMAIN pc :
       (Returned(t) /\ HasRegisteredType(typeByName, input[t]))
       => \A i \in PresentFields(typeByName, input[t]) :
             LET f == FieldsOfInput(typeByName, input[t])[i]
                 want == C4_SpecValue(WireOf(input[t], f))
             IN  ( /\ FieldKind(f.type) = "Value"
                   /\ PresentFields(typeByName, input[t]) = {i} )
                 => IF want.ok
                    THEN result[t].ok /\ result[t].v.f[f.name] = want.v
                    ELSE result[t] = ParseErr

(***************************************************************************)
(* C5                                                                      *)
(***************************************************************************)
IsIntegerWire(x) == x.k = "num" /\ x.micro = 0

\* C5: in every item Unmarshal returns, a JSON integer held by a quad.Value
\* field or by an element of a []quad.Value field has become the
\* TypedString of its decimal text and xsd:integer.
C5_IntegerIsXsdInteger ==
    \A t \in DOMAIN pc :
       (Returned(t) /\ HasRegisteredType(typeByName, input[t]) /\ result[t].ok)
       => \A i \in PresentFields(typeByName, input[t]) :
             LET f == FieldsOfInput(typeByName, input[t])[i]
                 x == WireOf(input[t], f)
             IN  /\ (FieldKind(f.type) = "Value" /\ IsIntegerWire(x))
                       => result[t].v.f[f.name] = QTyped(Itoa(x.n), xsdInt)
                 /\ (FieldKind(f.type) = "ValueSequence" /\ x.k = "arr")
                       => \A j \in 1..Len(x.v) :
                             IsIntegerWire(x.v[j])
                             => result[t].v.f[f.name].v[j] = QTyped(Itoa(x.v[j].n), xsdInt)

(***************************************************************************)
(* C6                                                                      *)
(***************************************************************************)
\* A wire object with no string "@id", a string "@value" and a string
\* "@language".
IsLangWire(x) ==
    /\ x.k = "obj"
    /\ ~IsStrMember(x, "@id")
    /\ IsStrMember(x, "@value")
    /\ IsStrMember(x, "@language")

\* C6: the Value Decoder turns such an object into the LangString of its
\* "@value" text and its "@language" tag, so two objects that differ in
\* "@value" alone decode to different LangStrings.
C6_LangStringKeepsText ==
    \A t \in DOMAIN pc :
       (Returned(t) /\ HasRegisteredType(typeByName, input[t]) /\ result[t].ok)
       => \A i \in PresentFields(typeByName, input[t]) :
             LET f == FieldsOfInput(typeByName, input[t])[i]
                 x == WireOf(input[t], f)
                 got == result[t].v.f[f.name].v
             IN  (FieldKind(f.type) = "ValueSequence" /\ x.k = "arr")
                 => /\ \A j \in 1..Len(x.v) :
                          IsLangWire(x.v[j])
                          => got[j] = QLang(x.v[j].v["@value"].v, x.v[j].v["@language"].v)
                    /\ \A j, k \in 1..Len(x.v) :
                          ( /\ IsLangWire(x.v[j]) /\ IsLangWire(x.v[k])
                            /\ x.v[j].v["@value"] # x.v[k].v["@value"]
                            /\ x.v[j].v["@language"] = x.v[k].v["@language"] )
                          => got[j] # got[k]

(***************************************************************************)
(* C7                                                                      *)
(***************************************************************************)
\* C7: in every item Unmarshal returns, a sequence field whose key is absent
\* is the nil sequence, and a sequence field whose key holds [] is an empty
\* sequence that is not nil.
C7_AbsentVersusEmpty ==
    \A t \in DOMAIN pc :
       (Returned(t) /\ HasRegisteredType(typeByName, input[t]) /\ result[t].ok)
       => \A i \in 1..Len(FieldsOfInput(typeByName, input[t])) :
             LET f == FieldsOfInput(typeByName, input[t])[i]
             IN  (IsSequenceKind(f) /\ SplitTag(f.tag) # "-")
                 => /\ WireKey(f) \notin DOMAIN input[t].v
                          => result[t].v.f[f.name] = GoNil
                    /\ (WireKey(f) \in DOMAIN input[t].v /\ WireOf(input[t], f) = WArr(<< >>))
                          => result[t].v.f[f.name] = GoSlice(<< >>)

(***************************************************************************)
(* C8                                                                      *)
(***************************************************************************)
\* C8: Unmarshal of an object whose "@type" is absent or is no JSON string
\* returns the error of the "@type" decoding and no item, whatever is
\* registered.
C8_MissingDiscriminatorFails ==
    \A t \in DOMAIN pc :
       (Returned(t) /\ IsObject(input[t]) /\ ~IsStrMember(input[t], "@type"))
       => result[t] = JsonErr("@type")

(***************************************************************************)
(* C9                                                                      *)
(***************************************************************************)
\* C9 as claimed: a present sequence field whose wire value is no JSON array
\* makes Unmarshal return an error and no item.
C9_NonArrayFails ==
    \A t \in DOMAIN pc :
       (Returned(t) /\ HasRegisteredType(typeByName, input[t]))
       => \A i \in PresentFields(typeByName, input[t]) :
             LET f == FieldsOfInput(typeByName, input[t])[i]
             IN  (IsSequenceKind(f) /\ WireOf(input[t], f).k # "arr")
                 => result[t].ok = FALSE

\* C9, amended: a present sequence field whose wire value is neither a JSON
\* array nor null makes Unmarshal return an error and no item; null is
\* accepted and leaves the field nil.
C9_NonArrayNonNullFails ==
    \A t \in DOMAIN pc :
       (Returned(t) /\ HasRegisteredType(typeByName, input[t]))
       => \A i \in PresentFields(typeByName, input[t]) :
             LET f == FieldsOfInput(typeByName, input[t])[i]
                 x == WireOf(input[t], f)
             IN  IsSequenceKind(f)
                 => /\ x.k \notin {"arr", "null"} => result[t].ok = FALSE
                    /\ (x.k = "null" /\ PresentFields(typeByName, input[t]) = {i})
                          => result[t].ok /\ result[t].v.f[f.name] = GoNil

\* A string under the key of a []RegistryItem field was turned down.
C9_Witness ==
    \E t \in DOMAIN pc :
       /\ Returned(t)
       /\ HasRegisteredType(typeByName, input[t])
       /\ "children" \in DOMAIN input[t].v
       /\ input[t].v["children"] = WStr("a")
       /\ result[t] = JsonErr("[]json.RawMessage")

====
